---- MODULE Spec2Model ----
(***************************************************************************)
(* A model of the possum front end: the recursive-descent expression       *)
(* parser of src/src/ast.rs (run as a step machine with an explicit call   *)
(* stack over the Tokens cursor), the tokenizer of src/src/lexer.rs and    *)
(* its escape decoder.                                                     *)
(***************************************************************************)
EXTENDS Integers, Sequences, FiniteSets, TLC

VARIABLES
    \* parse: the Tokens cursor, the error list, the call stack, the result
    slice, cursor, errors, stack, ret, phase,
    \* parse: the last calls of peek and next, and the number of steps so far
    lastPeek, lastNext, steps,
    \* lex: the source text, the lexer's position, the items yielded so far
    source, lexPos, items, lexPhase,
    \* parse_str / parse_byte_str: the literal, the iterator, the result
    literal, unicode, chars, res, outcome, error

parseVars == <<slice, cursor, errors, stack, ret, phase, lastPeek, lastNext, steps>>

lexVars == <<source, lexPos, items, lexPhase>>

strVars == <<literal, unicode, chars, res, outcome, error>>

vars == <<parseVars, lexVars, strVars>>

(***************************************************************************)
(* Bounds of the model.                                                    *)
(***************************************************************************)
\* longest token slice enumerated over every token type
MaxLen == 3
\* most binary operators in an enumerated operand/operator alternation
MaxOps == 2
\* the largest number the model tells from the larger ones
MaxValue == 100000000

(***************************************************************************)
(* Option<T>                                                               *)
(***************************************************************************)
None == [some |-> FALSE]
Some(v) == [some |-> TRUE, v |-> v]

(***************************************************************************)
(* Tokens and spans (ast.rs reads a token as Token { ty, span }).          *)
(***************************************************************************)
Span(s1, s2) == <<s1, s2>>

Scalar(sc) == [tag |-> "Scalar", sc |-> sc]
Literal(l) == [tag |-> "Literal", lit |-> l]
Identifier(i) == [tag |-> "Identifier", id |-> i]

Token(ty, span) == [ty |-> ty, span |-> span]

SpSc(sc, sp) == [sc |-> sc, sp |-> sp]

(***************************************************************************)
(* Expr                                                                    *)
(***************************************************************************)
NoExpr == [ty |-> "None"]
NoOp == [sc |-> "None"]
NoToken == [ty |-> [tag |-> "None"]]

ExprBinarySwapped(lhs, op, rhs) ==
    [ty |-> "Binary", span |-> Span(lhs.span[1], rhs.span[2]),
     lhs |-> rhs, op |-> op, rhs |-> lhs]

ExprBinary(lhs, op, rhs) ==
    [ty |-> "Binary", span |-> Span(lhs.span[1], rhs.span[2]),
     lhs |-> lhs, op |-> op, rhs |-> rhs]

ExprUnary(op, rhs) ==
    [ty |-> "Unary", span |-> Span(op.sp[1], rhs.span[2]), op |-> op, rhs |-> rhs]

ExprPrimary(prim, span) == [ty |-> "Primary", span |-> span, prim |-> prim]

ExprInvalid(span) == [ty |-> "Invalid", span |-> span]

(***************************************************************************)
(* The ass! macro: Token::as_<level>, Some(SpSc) for the level's scalars.  *)
(***************************************************************************)
ass(tok, scalars) ==
    IF tok.ty.tag = "Scalar" /\ tok.ty.sc \in scalars
    THEN Some(SpSc(tok.ty.sc, Span(tok.span[1], tok.span[2])))
    ELSE None

as_equality(tok) == ass(tok, {"Equal", "NotEqual"})
as_comparison(tok) == ass(tok, {"GreaterEqual", "LessEqual", "Greater", "Less"})
as_addition(tok) == ass(tok, {"Plus", "Minus"})
as_multiplication_loose(tok) == ass(tok, {"Star", "Slash", "Modulo", "Plus", "Minus"})
as_multiplication(tok) == ass(tok, {"Star", "Slash", "Modulo"})
as_unary(tok) == ass(tok, {"Bang", "Plus", "Minus"})

BinaryLevels == {"equality", "comparison", "addition", "multiplication"}

\* $as_name of each instance of binary!
as_name(fn, tok) ==
    CASE fn = "equality" -> as_equality(tok)
      [] fn = "comparison" -> as_comparison(tok)
      [] fn = "addition" -> as_addition(tok)
      [] fn = "multiplication" -> as_multiplication(tok)

\* $next_name of each instance of binary!
next_name(fn) ==
    CASE fn = "equality" -> "comparison"
      [] fn = "comparison" -> "addition"
      [] fn = "addition" -> "multiplication"
      [] fn = "multiplication" -> "unary"

(***************************************************************************)
(* Tokens: the cursor over the slice.                                      *)
(***************************************************************************)
\* slice.get(i), i counted from 0
SliceGet(i) == IF i < Len(slice) THEN Some(slice[i + 1]) ELSE None

\* cursor.load(Relaxed) in peek
PeekAhead == cursor + 1
PeekIndex == cursor

\* the cursor after cursor.fetch_add(1, Relaxed) in next
FetchAddStalls == IF cursor < Len(slice) THEN cursor + 1 ELSE cursor
FetchAdd == cursor + 1

\* Tokens::peek
TokensPeek == SliceGet(PeekIndex)

\* Tokens::next: the value returned (the cursor becomes FetchAdd)
TokensNext == SliceGet(cursor)

(***************************************************************************)
(* The call stack.  A frame is one activation of equality, comparison,     *)
(* addition, multiplication, unary or primary; pc is its position, expr,   *)
(* op and tok its locals, at the cursor when the activation (or the        *)
(* current iteration of its loop) began.                                   *)
(***************************************************************************)
Frame(fn, pc) ==
    [fn |-> fn, pc |-> pc, expr |-> NoExpr, op |-> NoOp, tok |-> NoToken, at |-> cursor]

FrameAt(fn, pc, c) == [Frame(fn, pc) EXCEPT !.at = c]

EntryPc(fn) == IF fn \in BinaryLevels THEN "first" ELSE "peek"

Top == stack[Len(stack)]

SetTop(f) == [stack EXCEPT ![Len(stack)] = f]

\* the caller's frame once the callee has returned v
Resume(p, v) ==
    CASE p.pc = "wait_first" -> [p EXCEPT !.expr = v, !.pc = "peek"]
      [] p.pc = "wait_rhs" /\ p.fn \in BinaryLevels ->
            [p EXCEPT !.expr = ExprBinary(p.expr, p.op, v), !.pc = "peek"]
      [] p.pc = "wait_rhs" /\ p.fn = "unary" ->
            [p EXCEPT !.expr = ExprUnary(p.op, v), !.pc = "return"]

\* the top activation returns v to its caller; parse returns (expr, errors)
Return(v) ==
    IF Len(stack) = 1
    THEN /\ stack' = <<>>
         /\ ret' = v
         /\ phase' = "done"
    ELSE /\ stack' = [i \in 1..(Len(stack) - 1) |->
                        IF i = Len(stack) - 1 THEN Resume(stack[i], v) ELSE stack[i]]
         /\ UNCHANGED <<ret, phase>>

\* a call of Tokens::peek, as the history records it
DoPeek == lastPeek' = [valid |-> TRUE, pos |-> PeekIndex, res |-> TokensPeek]

\* a call of Tokens::next
DoNext ==
    /\ lastNext' = TokensNext
    /\ cursor' = FetchAdd
    /\ lastPeek' = [lastPeek EXCEPT !.valid = FALSE]

(***************************************************************************)
(* parse                                                                   *)
(***************************************************************************)
Parse ==
    /\ phase = "new"
    /\ errors' = <<>>
    /\ stack' = <<Frame("equality", "first")>>
    /\ phase' = "running"
    /\ UNCHANGED <<slice, cursor, ret, lastPeek, lastNext, steps>>
    /\ UNCHANGED <<lexVars, strVars>>

(***************************************************************************)
(* binary!                                                                 *)
(***************************************************************************)
\* let mut expr = $next_name(tokens, errors);
BinaryCall ==
    /\ phase = "running"
    /\ Top.fn \in BinaryLevels
    /\ Top.pc = "first"
    /\ stack' = Append(SetTop([Top EXCEPT !.pc = "wait_first"]),
                       Frame(next_name(Top.fn), EntryPc(next_name(Top.fn))))
    /\ UNCHANGED <<slice, cursor, errors, ret, phase, lastPeek, lastNext, steps>>
    /\ UNCHANGED <<lexVars, strVars>>

\* while let Some(Some(op)) = tokens.peek().map($as_name) ... expr
BinaryPeek ==
    /\ phase = "running"
    /\ Top.fn \in BinaryLevels
    /\ Top.pc = "peek"
    /\ DoPeek
    /\ LET t == TokensPeek
           op == IF t.some THEN as_name(Top.fn, t.v) ELSE None
       IN  IF op.some
           THEN /\ stack' = SetTop([Top EXCEPT !.op = op.v, !.pc = "next", !.at = cursor])
                /\ UNCHANGED <<ret, phase>>
           ELSE Return(Top.expr)
    /\ UNCHANGED <<slice, cursor, errors, lastNext, steps>>
    /\ UNCHANGED <<lexVars, strVars>>

\* tokens.next(); let rhs = $next_name(tokens, errors);
BinaryNext ==
    /\ phase = "running"
    /\ Top.fn \in BinaryLevels
    /\ Top.pc = "next"
    /\ DoNext
    /\ stack' = Append(SetTop([Top EXCEPT !.pc = "wait_rhs"]),
                       FrameAt(next_name(Top.fn), EntryPc(next_name(Top.fn)), FetchAdd))
    /\ steps' = steps + 1
    /\ UNCHANGED <<slice, errors, ret, phase>>
    /\ UNCHANGED <<lexVars, strVars>>

(***************************************************************************)
(* unary                                                                   *)
(***************************************************************************)
\* if let Some(Some(op)) = tokens.peek().map(Token::as_unary) ... primary(tokens, errors)
UnaryPeek ==
    /\ phase = "running"
    /\ Top.fn = "unary"
    /\ Top.pc = "peek"
    /\ DoPeek
    /\ LET t == TokensPeek
           op == IF t.some THEN as_unary(t.v) ELSE None
       IN  IF op.some
           THEN stack' = SetTop([Top EXCEPT !.op = op.v, !.pc = "next"])
           ELSE stack' = SetTop(Frame("primary", "peek"))
    /\ UNCHANGED <<slice, cursor, errors, ret, phase, lastNext, steps>>
    /\ UNCHANGED <<lexVars, strVars>>

\* tokens.next(); let rhs = unary(tokens, errors);
UnaryNext ==
    /\ phase = "running"
    /\ Top.fn = "unary"
    /\ Top.pc = "next"
    /\ DoNext
    /\ stack' = Append(SetTop([Top EXCEPT !.pc = "wait_rhs"]),
                       FrameAt("unary", "peek", FetchAdd))
    /\ steps' = steps + 1
    /\ UNCHANGED <<slice, errors, ret, phase>>
    /\ UNCHANGED <<lexVars, strVars>>

\* return Expr { span: Span(op.sp.0, rhs.span.1), ty: ExprType::Unary(..) };
UnaryReturn ==
    /\ phase = "running"
    /\ Top.fn = "unary"
    /\ Top.pc = "return"
    /\ Return(Top.expr)
    /\ UNCHANGED <<slice, cursor, errors, lastPeek, lastNext, steps>>
    /\ UNCHANGED <<lexVars, strVars>>

(***************************************************************************)
(* primary                                                                 *)
(***************************************************************************)
\* match tokens.peek()
PrimaryPeek ==
    /\ phase = "running"
    /\ Top.fn = "primary"
    /\ Top.pc = "peek"
    /\ DoPeek
    /\ LET t == TokensPeek
       IN  IF t.some /\ t.v.ty.tag = "Literal"
           THEN stack' = SetTop([Top EXCEPT !.tok = t.v, !.pc = "literal"])
           ELSE IF t.some /\ t.v.ty.tag = "Identifier"
           THEN stack' = SetTop([Top EXCEPT !.tok = t.v, !.pc = "identifier"])
           ELSE stack' = SetTop([Top EXCEPT !.pc = "invalid"])
    /\ steps' = steps + 1
    /\ UNCHANGED <<slice, cursor, errors, ret, phase, lastNext>>
    /\ UNCHANGED <<lexVars, strVars>>

\* the Literal and Identifier arms: tokens.next(); Expr { ty: Primary(..), span: *span }
PrimaryNext ==
    /\ phase = "running"
    /\ Top.fn = "primary"
    /\ Top.pc \in {"literal", "identifier"}
    /\ DoNext
    /\ Return(ExprPrimary(Top.tok.ty, Top.tok.span))
    /\ UNCHANGED <<slice, errors, steps>>
    /\ UNCHANGED <<lexVars, strVars>>

\* tokens.next().map(|t| t.span).unwrap_or(Span(0, 0))
InvalidSpanAtCursor(n) == IF n.some THEN n.v.span ELSE Span(cursor, cursor)
InvalidSpan(n) == IF n.some THEN n.v.span ELSE Span(0, 0)

\* the `_` arm: the span of tokens.next() or Span(0, 0), one error, Invalid
PrimaryInvalid ==
    /\ phase = "running"
    /\ Top.fn = "primary"
    /\ Top.pc = "invalid"
    /\ DoNext
    /\ LET span == InvalidSpan(TokensNext)
       IN  /\ errors' = Append(errors, <<"Unimplemented", span>>)
           /\ Return(ExprInvalid(span))
    /\ UNCHANGED <<slice, steps>>
    /\ UNCHANGED <<lexVars, strVars>>

(***************************************************************************)
(* The token slices parse is run on.                                       *)
(***************************************************************************)
\* token i of a slice: one byte wide, one byte between tokens, lead bytes before
SpanAt(lead, i) == Span(lead + 2 * (i - 1), lead + 2 * (i - 1) + 1)

LeadGaps == {0, 1}

AnyTypes ==
    {"Literal", "Identifier", "Plus", "Star", "Equal", "Bang", "LeftBrace"}

Operands == {"Literal", "Identifier"}

Operators == {"Plus", "Minus", "Star", "Less", "Equal"}

\* the token of kind k at position i: the literals of an alternation are 1, 2, 3, ...
TokenOf(k, lead, i) ==
    Token(CASE k = "Literal" -> Literal((i + 1) \div 2)
            [] k = "Identifier" -> Identifier("x")
            [] OTHER -> Scalar(k),
          SpanAt(lead, i))

SliceOf(kinds, lead) == [i \in 1..Len(kinds) |-> TokenOf(kinds[i], lead, i)]

SeqsUpTo(S, n) == UNION {[1..k -> S] : k \in 0..n}

\* operand, operator, operand, ..., operand with k operators
Alternations(k) ==
    {[i \in 1..(2 * k + 1) |-> IF i % 2 = 1 THEN od[(i + 1) \div 2] ELSE op[i \div 2]] :
        od \in [1..(k + 1) -> Operands], op \in [1..k -> Operators]}

\* -1 + 2 * (x - 3)
EndToEnd ==
    <<Token(Scalar("Minus"), Span(0, 1)), Token(Literal(1), Span(1, 2)),
      Token(Scalar("Plus"), Span(3, 4)), Token(Literal(2), Span(5, 6)),
      Token(Scalar("Star"), Span(7, 8)), Token(Scalar("LeftParen"), Span(9, 10)),
      Token(Identifier("x"), Span(10, 11)), Token(Scalar("Minus"), Span(12, 13)),
      Token(Literal(3), Span(14, 15)), Token(Scalar("RightParen"), Span(15, 16))>>

Slices ==
    {SliceOf(ks, lead) : ks \in SeqsUpTo(AnyTypes, MaxLen), lead \in LeadGaps}
    \cup {SliceOf(ks, lead) : ks \in UNION {Alternations(k) : k \in 0..MaxOps},
                              lead \in LeadGaps}
    \cup {EndToEnd}

(***************************************************************************)
(* Tokens::new, then parse.                                                *)
(***************************************************************************)
ParseAt(s, ph) ==
    /\ slice = s
    /\ cursor = 0
    /\ errors = <<>>
    /\ stack = <<>>
    /\ ret = NoExpr
    /\ phase = ph
    /\ lastPeek = [valid |-> FALSE, pos |-> 0, res |-> None]
    /\ lastNext = None
    /\ steps = 0

\* no lex in progress
LexIdle ==
    /\ source = <<>>
    /\ lexPos = 0
    /\ items = <<>>
    /\ lexPhase = "idle"

\* no string literal being decoded
StrIdle ==
    /\ literal = <<>>
    /\ unicode = TRUE
    /\ chars = <<>>
    /\ res = <<>>
    /\ outcome = "idle"
    /\ error = [kind |-> "None", text |-> <<>>]

ParseInit ==
    /\ \E s \in Slices : ParseAt(s, "new")
    /\ LexIdle
    /\ StrIdle

ParseNext ==
    \/ Parse
    \/ BinaryCall
    \/ BinaryPeek
    \/ BinaryNext
    \/ UnaryPeek
    \/ UnaryNext
    \/ UnaryReturn
    \/ PrimaryPeek
    \/ PrimaryNext
    \/ PrimaryInvalid

ParseSpec == ParseInit /\ [][ParseNext]_vars

\* parse is one sequential call: a step that can be taken is taken
ParseFairSpec == ParseSpec /\ WF_vars(ParseNext)

(***************************************************************************)
(* lex (src/src/lexer.rs).  The source is a sequence of characters; the    *)
(* rules of Scalar modelled are those that can match a text made of        *)
(* digits, letters, `_`, `+`, `/` and whitespace, none of it a keyword.    *)
(***************************************************************************)
Digits == {"0", "1", "2", "3", "4", "5", "6", "7", "8", "9"}

Letters ==
    {"a", "b", "c", "d", "e", "f", "g", "h", "i", "j", "k", "l", "m", "n", "o", "p",
     "q", "r", "s", "t", "u", "v", "w", "x", "y", "z"}

Whitespace == {" ", "\n", "\t", "\r"}

LineBreaks == {"\n", "\r"}

Max(S) == CHOOSE x \in S : \A y \in S : y <= x

\* #[regex(r"[ \n\t\r]+", logos::skip)]: the offset after the run at offset p
RECURSIVE SkipWhitespace(_)
SkipWhitespace(p) ==
    IF p < Len(source) /\ source[p + 1] \in Whitespace THEN SkipWhitespace(p + 1) ELSE p

\* #[regex(r"//.*[\n\r]")]: the ends of its matches at offset p (`.` is any
\* character but \n)
CommentEnds(p) ==
    IF p + 1 < Len(source) /\ source[p + 1] = "/" /\ source[p + 2] = "/"
    THEN {e \in (p + 3)..Len(source) :
             /\ source[e] \in LineBreaks
             /\ \A i \in (p + 3)..(e - 1) : source[i] # "\n"}
    ELSE {}

\* #[regex(r"[0-9](_?[0-9])*")]: the end of the match whose first digit ends at e
RECURSIVE IntegerEnd(_)
IntegerEnd(e) ==
    IF e < Len(source) /\ source[e + 1] \in Digits THEN IntegerEnd(e + 1)
    ELSE IF e + 1 < Len(source) /\ source[e + 1] = "_" /\ source[e + 2] \in Digits
    THEN IntegerEnd(e + 2)
    ELSE e

\* #[regex(r"_*[A-Za-z][A-Za-z0-9_]*")]
RECURSIVE IdentifierStart(_)
IdentifierStart(p) ==
    IF p < Len(source) /\ source[p + 1] = "_" THEN IdentifierStart(p + 1)
    ELSE IF p < Len(source) /\ source[p + 1] \in Letters THEN p + 1
    ELSE 0

RECURSIVE IdentifierEnd(_)
IdentifierEnd(e) ==
    IF e < Len(source) /\ source[e + 1] \in Letters \cup Digits \cup {"_"}
    THEN IdentifierEnd(e + 1)
    ELSE e

\* the Scalar matched at offset p and the end of its match: the longest match
ScalarAt(p) ==
    LET c == source[p + 1]
    IN  CASE c = "+" -> [sc |-> "Plus", end |-> p + 1]
          [] c = "/" ->
                IF CommentEnds(p) # {}
                THEN [sc |-> "Comment", end |-> Max(CommentEnds(p))]
                ELSE [sc |-> "Slash", end |-> p + 1]
          [] c \in Digits -> [sc |-> "IntegerLiteral", end |-> IntegerEnd(p + 1)]
          [] IdentifierStart(p) > 0 ->
                [sc |-> "Identifier", end |-> IdentifierEnd(IdentifierStart(p))]
          [] c = "_" -> [sc |-> "Underscore", end |-> p + 1]
          [] OTHER -> [sc |-> "Error", end |-> p + 1]

DigitValue(c) ==
    CASE c = "0" -> 0 [] c = "1" -> 1 [] c = "2" -> 2 [] c = "3" -> 3 [] c = "4" -> 4
      [] c = "5" -> 5 [] c = "6" -> 6 [] c = "7" -> 7 [] c = "8" -> 8 [] c = "9" -> 9
      [] c \in {"a", "A"} -> 10 [] c \in {"b", "B"} -> 11 [] c \in {"c", "C"} -> 12
      [] c \in {"d", "D"} -> 13 [] c \in {"e", "E"} -> 14 [] c \in {"f", "F"} -> 15

HexDigits == Digits \cup {"a", "b", "c", "d", "e", "f", "A", "B", "C", "D", "E", "F"}

filter_underscores(text) == SelectSeq(text, LAMBDA c : c # "_")

\* the number the digits write in the radix, as far as MaxValue
RECURSIVE RadixValue(_, _)
RadixValue(digits, radix) ==
    IF digits = <<>> THEN 0
    ELSE LET high == RadixValue(SubSeq(digits, 1, Len(digits) - 1), radix)
             n == high * radix + DigitValue(digits[Len(digits)])
         IN  IF high >= MaxValue \/ n >= MaxValue THEN MaxValue ELSE n

RECURSIVE Significant(_)
Significant(digits) ==
    IF digits # <<>> /\ digits[1] = "0" THEN Significant(Tail(digits)) ELSE digits

\* {integer}::from_str_radix: an error on no digit, on a character that is no
\* digit of the radix, and on overflow, which is more significant digits
\* than width (u8 in hex: 2, u32 in hex: 8; u64 in decimal: 19, a text of 20
\* digits being longer than any enumerated); one leading `+` is accepted
from_str_radix(text, radix, width) ==
    LET digits == IF Len(text) > 1 /\ text[1] = "+" THEN Tail(text) ELSE text
    IN  IF \/ digits = <<>>
           \/ \E i \in 1..Len(digits) :
                 digits[i] \notin HexDigits \/ DigitValue(digits[i]) >= radix
        THEN None
        ELSE IF Len(Significant(digits)) > width THEN None
        ELSE Some(RadixValue(digits, radix))

\* parse_int
parse_int(text) ==
    LET n == from_str_radix(filter_underscores(text), 10, 19)
    IN  IF n.some THEN [ok |-> TRUE, tok |-> Literal(n.v)]
        ELSE [ok |-> FALSE, err |-> "InvalidInteger"]

\* the closure lex maps over the spanned scalars
LexItem(ty, start, end) ==
    [token |->
        CASE ty = "Error" -> [ok |-> FALSE, err |-> "InvalidToken"]
          [] ty = "IntegerLiteral" -> parse_int(SubSeq(source, start + 1, end))
          [] ty = "Identifier" ->
                [ok |-> TRUE, tok |-> Identifier(SubSeq(source, start + 1, end))]
          [] OTHER -> [ok |-> TRUE, tok |-> Scalar(ty)],
     span |-> Span(start, end)]

\* the iterator yields its next item
LexYield ==
    /\ lexPhase = "lexing"
    /\ LET p == SkipWhitespace(lexPos)
       IN  /\ p < Len(source)
           /\ items' = Append(items, LexItem(ScalarAt(p).sc, p, ScalarAt(p).end))
           /\ lexPos' = ScalarAt(p).end
    /\ UNCHANGED <<source, lexPhase>>
    /\ UNCHANGED <<parseVars, strVars>>

\* the iterator is exhausted
LexEnd ==
    /\ lexPhase = "lexing"
    /\ SkipWhitespace(lexPos) >= Len(source)
    /\ lexPos' = SkipWhitespace(lexPos)
    /\ lexPhase' = "done"
    /\ UNCHANGED <<source, items>>
    /\ UNCHANGED <<parseVars, strVars>>

\* longest source text enumerated
MaxSource == 5

SourceChars == {"1", "a", "+", "/", " ", "\n"}

\* 1   +// comment\n 2
Commented ==
    <<"1", " ", " ", " ", "+", "/", "/", " ", "c", "o", "m", "m", "e", "n", "t",
      "\n", " ", "2">>

\* 1+2
Plain == <<"1", "+", "2">>

Sources == SeqsUpTo(SourceChars, MaxSource) \cup {Commented, Plain}

LexInit ==
    /\ source \in Sources
    /\ lexPos = 0
    /\ items = <<>>
    /\ lexPhase = "lexing"
    /\ ParseAt(<<>>, "idle")
    /\ StrIdle

LexNext ==
    \/ LexYield
    \/ LexEnd

LexSpec == LexInit /\ [][LexNext]_vars

(***************************************************************************)
(* parse_str, parse_byte_str and unescape (src/src/lexer.rs).  A character *)
(* is a one-character string, a decoded character its code point.          *)
(***************************************************************************)
Backslash == "\\"

Quote == "\""

CodeOf(c) ==
    CASE c = "\"" -> 34 [] c = "'" -> 39 [] c = "\\" -> 92 [] c = "{" -> 123
      [] c = "}" -> 125 [] c = "0" -> 48 [] c = "1" -> 49 [] c = "4" -> 52
      [] c = "7" -> 55 [] c = "8" -> 56 [] c = "A" -> 65 [] c = "D" -> 68
      [] c = "F" -> 70 [] c = "Z" -> 90 [] c = "a" -> 97 [] c = "n" -> 110
      [] c = "r" -> 114 [] c = "t" -> 116 [] c = "u" -> 117 [] c = "x" -> 120

Ok(ch, rest) == [ok |-> TRUE, ch |-> ch, rest |-> rest]

Err(kind, text, rest) ==
    [ok |-> FALSE, err |-> [kind |-> kind, text |-> text], rest |-> rest]

is_ascii_hexdigit(c) == c \in HexDigits

is_ascii_octdigit_lax(c) == is_ascii_hexdigit(c)
is_ascii_octdigit(c) == c \in {"0", "1", "2", "3", "4", "5", "6", "7"}

\* u32 -> char: a Unicode scalar value
IsChar(n) == n <= 1114111 /\ ~(55296 <= n /\ n <= 57343)

\* the `x` arm of unescape: cs follows `\x`
unescape_ascii(cs) ==
    IF cs = <<>> THEN Err("InvalidEscape", <<Backslash, "x">>, cs)
    ELSE IF ~is_ascii_octdigit(cs[1])
    THEN Err("InvalidEscape", <<Backslash, "x", cs[1]>>, Tail(cs))
    ELSE IF Len(cs) = 1 THEN Err("InvalidEscape", <<Backslash, "x", cs[1]>>, <<>>)
    ELSE IF ~is_ascii_hexdigit(cs[2])
    THEN Err("InvalidEscape", <<Backslash, "x", cs[1], cs[2]>>, SubSeq(cs, 3, Len(cs)))
    ELSE LET n == from_str_radix(<<cs[1], cs[2]>>, 16, 2)
         IN  IF n.some THEN Ok(n.v, SubSeq(cs, 3, Len(cs)))
             ELSE Err("InvalidInteger", <<>>, SubSeq(cs, 3, Len(cs)))

\* the characters before the first `}` of cs, or all of cs
RECURSIVE UpToBrace(_)
UpToBrace(cs) ==
    IF cs = <<>> \/ cs[1] = "}" THEN <<>> ELSE <<cs[1]>> \o UpToBrace(Tail(cs))

\* the `u` arm of unescape: cs follows `\u`
unescape_unicode(cs) ==
    IF cs = <<>> THEN Err("InvalidEscape", <<Backslash, "u">>, cs)
    ELSE IF cs[1] # "{" THEN Err("InvalidEscape", <<Backslash, "u">>, Tail(cs))
    ELSE LET digits == UpToBrace(Tail(cs))
             rest == SubSeq(cs, Len(digits) + 3, Len(cs))
             num == from_str_radix(digits, 16, 8)
         IN  IF Len(digits) + 1 = Len(cs)
             THEN Err("InvalidEscape", <<Backslash, "u", "{">> \o digits, <<>>)
             ELSE IF ~num.some \/ ~IsChar(num.v)
             THEN Err("InvalidEscape", <<Backslash, "u", "{">> \o digits \o <<"}">>, rest)
             ELSE Ok(num.v, rest)

\* unescape: cs is what the iterator holds after the backslash
unescape(cs, uni) ==
    IF cs = <<>> THEN Err("InvalidEscape", <<Backslash>>, cs)
    ELSE LET c == cs[1]
         IN  CASE c = "\"" -> Ok(34, Tail(cs))
               [] c = "'" -> Ok(39, Tail(cs))
               [] c = "\\" -> Ok(92, Tail(cs))
               [] c = "n" -> Ok(10, Tail(cs))
               [] c = "t" -> Ok(9, Tail(cs))
               [] c = "r" -> Ok(13, Tail(cs))
               [] c = "0" -> Ok(0, Tail(cs))
               [] c = "x" -> unescape_ascii(Tail(cs))
               [] c = "u" /\ uni -> unescape_unicode(Tail(cs))
               [] OTHER -> Err("InvalidEscape", <<Backslash, c>>, Tail(cs))

\* a String takes the character, a Vec<u8> the character `as u8`
Pushed(ch) == IF unicode THEN ch ELSE ch % 256

\* let slice = &slice[1..(slice.len() - 1)] (parse_byte_str: [2..]), the
\* empty result, the iterator over the contents
StrBegin ==
    /\ outcome = "called"
    /\ chars' = SubSeq(literal, IF unicode THEN 2 ELSE 3, Len(literal) - 1)
    /\ res' = <<>>
    /\ outcome' = "running"
    /\ UNCHANGED <<literal, unicode, error>>
    /\ UNCHANGED <<parseVars, lexVars>>

\* an iteration of the loop on a character that is no backslash
StrChar ==
    /\ outcome = "running"
    /\ chars # <<>>
    /\ Head(chars) # Backslash
    /\ res' = Append(res, Pushed(CodeOf(Head(chars))))
    /\ chars' = Tail(chars)
    /\ UNCHANGED <<literal, unicode, outcome, error>>
    /\ UNCHANGED <<parseVars, lexVars>>

\* an iteration on a backslash: res.push(unescape(&mut chars, ..)?)
StrEscape ==
    /\ outcome = "running"
    /\ chars # <<>>
    /\ Head(chars) = Backslash
    /\ LET r == unescape(Tail(chars), unicode)
       IN  /\ chars' = r.rest
           /\ IF r.ok
              THEN /\ res' = Append(res, Pushed(r.ch))
                   /\ UNCHANGED <<outcome, error>>
              ELSE /\ outcome' = "err"
                   /\ error' = r.err
                   /\ UNCHANGED res
    /\ UNCHANGED <<literal, unicode>>
    /\ UNCHANGED <<parseVars, lexVars>>

\* Ok(res)
StrReturn ==
    /\ outcome = "running"
    /\ chars = <<>>
    /\ outcome' = "ok"
    /\ UNCHANGED <<literal, unicode, chars, res, error>>
    /\ UNCHANGED <<parseVars, lexVars>>

\* longest contents enumerated over ContentChars
MaxContent == 4

ContentChars == {"\\", "\"", "'", "n", "0", "x", "4", "8", "Z", "u"}

\* further contents: \t \r \x41 \x7F \x4a a\x41 \u{41} \u{D800} \u{110000}
\* \u{} \u{4Z} \u{41 \u{ \u{000000041} \u{41}\n \u{FFFFFFFF}
MoreContents ==
    {<<"\\", "t">>, <<"\\", "r">>, <<"\\", "x", "4", "1">>, <<"\\", "x", "7", "F">>,
     <<"\\", "x", "4", "a">>, <<"a", "\\", "x", "4", "1">>,
     <<"\\", "u", "{", "4", "1", "}">>, <<"\\", "u", "{", "D", "8", "0", "0", "}">>,
     <<"\\", "u", "{", "1", "1", "0", "0", "0", "0", "}">>, <<"\\", "u", "{", "}">>,
     <<"\\", "u", "{", "4", "Z", "}">>, <<"\\", "u", "{", "4", "1">>,
     <<"\\", "u", "{">>,
     <<"\\", "u", "{", "0", "0", "0", "0", "0", "0", "0", "4", "1", "}">>,
     <<"\\", "u", "{", "4", "1", "}", "\\", "n">>,
     <<"\\", "u", "{", "F", "F", "F", "F", "F", "F", "F", "F", "}">>}

\* what StringLiteral and ByteStringLiteral match between the quotes:
\* (\\"|[^"])*, every quote after a backslash
IsContent(cs) == \A i \in 1..Len(cs) : cs[i] = Quote => (i > 1 /\ cs[i - 1] = Backslash)

Contents == {cs \in SeqsUpTo(ContentChars, MaxContent) : IsContent(cs)} \cup MoreContents

\* lex calls parse_str on a StringLiteral, parse_byte_str on a ByteStringLiteral
StrInit ==
    /\ \E cs \in Contents :
          \/ literal = <<Quote>> \o cs \o <<Quote>> /\ unicode = TRUE
          \/ literal = <<"b", Quote>> \o cs \o <<Quote>> /\ unicode = FALSE
    /\ chars = <<>>
    /\ res = <<>>
    /\ outcome = "called"
    /\ error = [kind |-> "None", text |-> <<>>]
    /\ ParseAt(<<>>, "idle")
    /\ LexIdle

StrNext ==
    \/ StrBegin
    \/ StrChar
    \/ StrEscape
    \/ StrReturn

StrSpec == StrInit /\ [][StrNext]_vars

(***************************************************************************)
(* Properties of parse.                                                    *)
(***************************************************************************)
Done == phase = "done"

\* a step in which the top activation returns to its caller
Returns == stack # <<>> /\ Len(stack') < Len(stack)

\* the value that step returned
Returned ==
    IF Len(stack) = 1 THEN ret'
    ELSE IF stack[Len(stack) - 1].pc = "wait_first" THEN stack'[Len(stack')].expr
    ELSE stack'[Len(stack')].expr.rhs

\* a step that calls Tokens::next
CallsNext ==
    stack # <<>> /\ Top.pc \in {"next", "literal", "identifier", "invalid"}

\* a step that calls Tokens::peek
CallsPeek == stack # <<>> /\ Top.pc = "peek"

Kinds(s) ==
    [i \in 1..Len(s) |->
        IF s[i].ty.tag = "Scalar" THEN s[i].ty.sc ELSE s[i].ty.tag]

\* every activation that returns, and every loop iteration or recursive call
\* that completes, has moved the cursor forward since it began
C1_Advances ==
    Returns =>
        /\ Top.fn = "primary" => cursor' > Top.at
        /\ (Len(stack) > 1 /\ stack[Len(stack) - 1].pc = "wait_rhs")
              => cursor' > stack[Len(stack) - 1].at

\* C1: parse terminates on every slice: each binary-loop iteration, each
\* recursive call of unary and each call of primary advances the cursor, so
\* there are at most Len(slice) + 1 of them and parse reaches its return.
C1_Terminates ==
    /\ [][C1_Advances]_vars
    /\ [](steps <= Len(slice) + 1 /\ steps <= cursor + 1 /\ cursor <= Len(slice) + 1)
    /\ <>Done

\* parse has returned from a slice none of whose tokens a production accepts
C1_Witness ==
    /\ Done
    /\ Len(slice) = MaxLen
    /\ \A i \in 1..Len(slice) : slice[i].ty = Scalar("LeftBrace")
    /\ steps = 1

C2_Recovery ==
    /\ (stack # <<>> /\ Top.fn = "primary" /\ Top.pc = "peek")
          => cursor' = cursor /\ errors' = errors
    /\ (stack # <<>> /\ Top.fn = "primary" /\ Top.pc = "invalid")
          => LET span == IF cursor < Len(slice) THEN slice[cursor + 1].span ELSE <<0, 0>>
             IN  /\ cursor' = cursor + 1
                 /\ errors' = Append(errors, <<"Unimplemented", span>>)
                 /\ Returns
                 /\ Returned = [ty |-> "Invalid", span |-> span]

C2_LeftBrace ==
    (Done /\ Kinds(slice) = <<"LeftBrace">>)
        => /\ ret = [ty |-> "Invalid", span |-> slice[1].span]
           /\ errors = <<<<"Unimplemented", slice[1].span>>>>
           /\ cursor = 1

\* C2: a call of primary that finds neither a Literal nor an Identifier
\* appends exactly one error, consumes exactly one token and returns Invalid
\* spanning that token, or (0, 0) when the input is exhausted; parse on
\* [LeftBrace] returns Invalid, one error, one token consumed.
C2_InvalidPrimary == [][C2_Recovery]_vars /\ []C2_LeftBrace

\* primary has recovered at the end of the input, after a trailing operator
C2_Witness ==
    /\ Done
    /\ Len(slice) = 2
    /\ cursor = 3
    /\ Len(errors) = 1
    /\ errors[1][2] = <<0, 0>>
    /\ ret.ty = "Binary"
    /\ ret.rhs.ty = "Invalid"

\* C3: when parse returns, every token of the slice has been visited and
\* every token no production accepts has an error with its span.
C3_AllVisited ==
    Done =>
        /\ cursor >= Len(slice)
        /\ \A i \in 1..Len(slice) :
              slice[i].ty = Scalar("LeftBrace")
                 => \E e \in 1..Len(errors) : errors[e][2] = slice[i].span

Children(e) ==
    CASE e.ty = "Binary" -> {e.lhs, e.rhs}
      [] e.ty = "Unary" -> {e.rhs}
      [] OTHER -> {}

RECURSIVE SpansNest(_)
SpansNest(e) ==
    /\ e.span[1] <= e.span[2]
    /\ \A c \in Children(e) :
          /\ e.span[1] <= c.span[1]
          /\ c.span[2] <= e.span[2]
          /\ SpansNest(c)

\* C4: every node of the returned tree has start <= end and every parent's
\* span contains the span of each child.
C4_SpansNest == Done => SpansNest(ret)

(***************************************************************************)
(* The tree of the grammar for operand (operator operand)*: split at the   *)
(* last operator of the loosest level present.                             *)
(***************************************************************************)
Level(sc) ==
    CASE sc \in {"Equal", "NotEqual"} -> 1
      [] sc \in {"GreaterEqual", "LessEqual", "Greater", "Less"} -> 2
      [] sc \in {"Plus", "Minus"} -> 3
      [] sc \in {"Star", "Slash", "Modulo"} -> 4
      [] OTHER -> 0

IsAlternation(s) ==
    /\ Len(s) % 2 = 1
    /\ \A i \in 1..Len(s) :
          IF i % 2 = 1
          THEN s[i].ty.tag \in {"Literal", "Identifier"}
          ELSE s[i].ty.tag = "Scalar" /\ Level(s[i].ty.sc) > 0

RECURSIVE GrammarTree(_, _)
GrammarTree(lo, hi) ==
    IF lo = hi
    THEN [ty |-> "Primary", span |-> slice[lo].span, prim |-> slice[lo].ty]
    ELSE LET ops == {i \in lo..hi : (i - lo) % 2 = 1}
             loosest == CHOOSE i \in ops :
                           \A j \in ops : Level(slice[i].ty.sc) <= Level(slice[j].ty.sc)
             k == CHOOSE i \in ops :
                     /\ Level(slice[i].ty.sc) = Level(slice[loosest].ty.sc)
                     /\ \A j \in ops :
                           Level(slice[j].ty.sc) = Level(slice[loosest].ty.sc) => j <= i
         IN  [ty |-> "Binary",
              span |-> <<slice[lo].span[1], slice[hi].span[2]>>,
              lhs |-> GrammarTree(lo, k - 1),
              op |-> [sc |-> slice[k].ty.sc, sp |-> slice[k].span],
              rhs |-> GrammarTree(k + 1, hi)]

Leaf(n, s) == [ty |-> "Primary", span |-> s, prim |-> [tag |-> "Literal", lit |-> n]]

Node(l, sc, sp, r) ==
    [ty |-> "Binary", span |-> <<l.span[1], r.span[2]>>, lhs |-> l,
     op |-> [sc |-> sc, sp |-> sp], rhs |-> r]

\* 1 - 2 - 3 and 1 + 2 * 3, the tokens one byte wide and one byte apart
OneMinusTwoMinusThree ==
    Node(Node(Leaf(1, <<0, 1>>), "Minus", <<2, 3>>, Leaf(2, <<4, 5>>)),
         "Minus", <<6, 7>>, Leaf(3, <<8, 9>>))

OnePlusTwoTimesThree ==
    Node(Leaf(1, <<0, 1>>), "Plus", <<2, 3>>,
         Node(Leaf(2, <<4, 5>>), "Star", <<6, 7>>, Leaf(3, <<8, 9>>)))

\* C5: an alternation of operands and binary operators parses with no error
\* to the tree of the grammar: tighter levels below looser ones, one level
\* grouping to the left; 1 - 2 - 3 is (1 - 2) - 3 and 1 + 2 * 3 is 1 + (2 * 3).
C5_GrammarTree ==
    (Done /\ IsAlternation(slice)) =>
        /\ errors = <<>>
        /\ cursor = Len(slice)
        /\ ret = GrammarTree(1, Len(slice))
        /\ slice = SliceOf(<<"Literal", "Minus", "Literal", "Minus", "Literal">>, 0)
              => ret = OneMinusTwoMinusThree
        /\ slice = SliceOf(<<"Literal", "Plus", "Literal", "Star", "Literal">>, 0)
              => ret = OnePlusTwoTimesThree

\* parse has returned the left-grouped tree of 1 - 2 - 3
C5_Witness ==
    /\ Done
    /\ slice = SliceOf(<<"Literal", "Minus", "Literal", "Minus", "Literal">>, 0)
    /\ ret = OneMinusTwoMinusThree

\* C6: -1 + 2 * (x - 3) parses with no error to
\* Binary(+, Unary(-, 1), Binary(*, 2, Block(Binary(x, -, 3)))), all ten
\* tokens consumed.
C6_EndToEnd ==
    (Done /\ slice = EndToEnd) =>
        /\ errors = <<>>
        /\ cursor = Len(EndToEnd)
        /\ ret.ty = "Binary"
        /\ ret.op.sc = "Plus"
        /\ ret.lhs.ty = "Unary"
        /\ ret.lhs.op.sc = "Minus"
        /\ ret.lhs.rhs.prim = Literal(1)
        /\ ret.rhs.ty = "Binary"
        /\ ret.rhs.op.sc = "Star"
        /\ ret.rhs.lhs.prim = Literal(2)
        /\ ret.rhs.rhs.ty = "Primary"
        /\ ret.rhs.rhs.prim.tag = "Block"

C8_Step ==
    /\ cursor' >= cursor
    /\ CallsNext => cursor' = cursor + 1 /\ (lastNext'.some <=> cursor < Len(slice))
    /\ ~CallsNext => cursor' = cursor
    /\ CallsPeek => /\ cursor' = cursor
                    /\ lastPeek'.valid
                    /\ lastPeek'.res.some <=> cursor < Len(slice)

\* C8: the cursor never decreases: next alone changes it, by exactly one per
\* call, peek leaves it alone, and both return None at or past the end.
C8_Monotonic == [][C8_Step]_vars

\* next has been called past the end of the slice and returned None
C8_Witness ==
    /\ Done
    /\ Len(slice) > 0
    /\ cursor = Len(slice) + 1
    /\ ~lastNext.some

C9_Step ==
    cursor' # cursor =>
        /\ lastPeek.valid
        /\ lastPeek.pos = cursor
        /\ lastNext' = lastPeek.res

\* C9: one token of lookahead, no backtracking: every next follows a peek at
\* the same cursor position and returns the token that peek inspected, and
\* no position beyond the cursor is ever inspected.
C9_Lookahead == [][C9_Step]_vars /\ [](lastPeek.pos <= cursor)

\* next has just returned the token the preceding peek inspected
C9_Witness ==
    /\ cursor = 2
    /\ lastNext.some
    /\ lastNext = lastPeek.res
    /\ lastPeek.pos = 1

(***************************************************************************)
(* Properties of lex.                                                      *)
(***************************************************************************)
LexDone == lexPhase = "done"

TokensOf(its) == [i \in 1..Len(its) |-> its[i].token]

\* C7: lex yields no item for a whitespace run and none for a // comment, so
\* `1   +// comment\n 2` yields the tokens of `1+2`.
C7_Transparent ==
    LexDone =>
        /\ \A i \in 1..Len(items) :
              /\ items[i].token # [ok |-> TRUE, tok |-> Scalar("Comment")]
              /\ source[items[i].span[1] + 1] \notin Whitespace
        /\ source = Commented =>
              TokensOf(items) = <<[ok |-> TRUE, tok |-> Literal(1)],
                                  [ok |-> TRUE, tok |-> Scalar("Plus")],
                                  [ok |-> TRUE, tok |-> Literal(2)]>>

(***************************************************************************)
(* Properties of escape decoding.                                          *)
(***************************************************************************)
\* the loop of parse_str / parse_byte_str is at a backslash
AtEscape == outcome = "running" /\ chars # <<>> /\ chars[1] = Backslash

\* the escape decodes to code, n characters after the backslash consumed
Decodes(code, n) ==
    /\ outcome' = "running"
    /\ res' = Append(res, code)
    /\ chars' = SubSeq(chars, n + 2, Len(chars))

\* the decode fails with InvalidEscape carrying the text of the escape, from
\* its backslash on, as far as it was read
Fails ==
    /\ outcome' = "err"
    /\ error'.kind = "InvalidEscape"
    /\ Len(error'.text) >= 1
    /\ Len(error'.text) <= Len(chars)
    /\ error'.text = SubSeq(chars, 1, Len(error'.text))
    /\ res' = res

ListedEscapes ==
    [c \in {"\"", "\\", "n", "t", "r", "0"} |->
        CASE c = "\"" -> 34 [] c = "\\" -> 92 [] c = "n" -> 10
          [] c = "t" -> 9 [] c = "r" -> 13 [] c = "0" -> 0]

\* \xHH, two hex digits naming an ASCII code
IsAsciiEscape(esc) ==
    /\ Len(esc) >= 3
    /\ esc[1] = "x"
    /\ esc[2] \in HexDigits
    /\ esc[3] \in HexDigits
    /\ 16 * DigitValue(esc[2]) + DigitValue(esc[3]) < 128

\* \u{H..}, hex digits naming a Unicode scalar value
IsUnicodeEscape(esc) ==
    /\ Len(esc) >= 4
    /\ esc[1] = "u"
    /\ esc[2] = "{"
    /\ \E k \in 4..Len(esc) :
          /\ esc[k] = "}"
          /\ \A j \in 3..(k - 1) : esc[j] \in HexDigits
          /\ LET n == RadixValue(SubSeq(esc, 3, k - 1), 16)
             IN  n <= 1114111 /\ (n < 55296 \/ n > 57343)

UnicodeValue(esc) == RadixValue(UpToBrace(SubSeq(esc, 3, Len(esc))), 16)

EscapeRule(simple) ==
    AtEscape =>
        LET esc == Tail(chars)
        IN  CASE esc # <<>> /\ esc[1] \in DOMAIN simple -> Decodes(simple[esc[1]], 1)
              [] IsAsciiEscape(esc) ->
                    Decodes(16 * DigitValue(esc[2]) + DigitValue(esc[3]), 3)
              [] unicode /\ IsUnicodeEscape(esc) ->
                    Decodes(UnicodeValue(esc), Len(UpToBrace(SubSeq(esc, 3, Len(esc)))) + 3)
              [] OTHER -> Fails

RECURSIVE Flatten(_)
Flatten(e) ==
    CASE e.ty = "Binary" ->
            Flatten(e.lhs) \o <<[ty |-> Scalar(e.op.sc), span |-> e.op.sp]>> \o Flatten(e.rhs)
      [] e.ty = "Unary" -> <<[ty |-> Scalar(e.op.sc), span |-> e.op.sp]>> \o Flatten(e.rhs)
      [] e.ty = "Primary" -> <<[ty |-> e.prim, span |-> e.span]>>
      [] e.ty = "Invalid" -> <<[ty |-> [tag |-> "Invalid"], span |-> e.span]>>

Consumed == IF cursor <= Len(slice) THEN cursor ELSE Len(slice)

\* C11: the returned tree, read left to right, is the prefix of the slice up
\* to the final cursor (an Invalid node standing for the token it consumed,
\* and one last Invalid of span (0, 0) when primary ran on the exhausted
\* input), the errors are as many as the Invalid nodes, and the cursor ends
\* at most one past the end of the slice.
C11_TreeIsPrefix ==
    Done =>
        LET f == Flatten(ret)
        IN  /\ cursor <= Len(slice) + 1
            /\ Len(f) = cursor
            /\ \A i \in 1..Consumed :
                  /\ f[i].span = slice[i].span
                  /\ f[i].ty.tag # "Invalid" => f[i].ty = slice[i].ty
            /\ cursor = Len(slice) + 1 =>
                  f[cursor] = [ty |-> [tag |-> "Invalid"], span |-> <<0, 0>>]
            /\ Len(errors) = Cardinality({i \in 1..Len(f) : f[i].ty.tag = "Invalid"})

\* parse has returned a tree with an Invalid node to the left of an operator
C11_Witness ==
    /\ Done
    /\ Len(slice) = 3
    /\ cursor = 3
    /\ ret.ty = "Binary"
    /\ ret.lhs.ty = "Invalid"
    /\ ret.rhs.ty = "Primary"
    /\ Len(errors) = 1

====
